---- MODULE Spec2Model ----
(***************************************************************************)
(* BioSim AI: the App component (plan / step / visual state), the Gemini   *)
(* service functions it awaits, and the SimulationViewer / TopicInput      *)
(* guards that decide which handler calls the UI lets through.             *)
(*                                                                         *)
(* One action is one synchronous stretch of JavaScript: an event handler   *)
(* up to its first await, or the continuation that runs when an awaited    *)
(* promise settles, together with the React effects the resulting render   *)
(* fires.                                                                  *)
(***************************************************************************)
EXTENDS Integers, Sequences, FiniteSets, Bags, TLC

VARIABLES
    mounted,            \* the mount effect (loadSimulationFromURL) has run
    topic,              \* useState<string>('')
    simulationPlan,     \* useState<SimulationStep[]>([])
    currentStepIndex,   \* useState<number>(0), 0-based as in the source
    visualContent,      \* useState<VisualContent | null>(null)
    loading,            \* useState<LoadingState>({plan, visual})
    videoStatus,        \* useState<string>('')
    error,              \* useState<string | null>(null)
    planInflight,       \* the bag of pending generateSimulationPlan calls
    inflight            \* the bag of pending visual calls (image, video, edit)

vars == <<mounted, topic, simulationPlan, currentStepIndex, visualContent,
          loading, videoStatus, error, planInflight, inflight>>

----------------------------------------------------------------------------
(* Bounds of the model *)

MaxPlanLen == 2
MaxInflight == 1
MaxPolls == 1
MaxPollsLong == 9

----------------------------------------------------------------------------
(* Values *)

NullError == "null"
NullVisual == [type |-> "null"]
NoStyle == "undefined"
NoPayload == [of |-> <<>>, edit |-> <<>>]

SimulationTypes == {"image", "video"}
VideoStyles == {"animation", "realistic", "documentary"}

\* The style the user has selected when clicking Regenerate.
SelectedStyles == {"realistic"}

\* What the user can have typed into the topic box: sequences of characters.
TypedTopics == { <<>>, <<" ">>, <<" ", "m">> }
EditPrompts == { <<" ">>, <<"l", " ">> }

RECURSIVE TrimStart(_)
TrimStart(s) == IF s # <<>> /\ Head(s) = " " THEN TrimStart(Tail(s)) ELSE s

RECURSIVE TrimEnd(_)
TrimEnd(s) == IF s # <<>> /\ s[Len(s)] = " " THEN TrimEnd(SubSeq(s, 1, Len(s) - 1)) ELSE s

Trim(s) == TrimEnd(TrimStart(s))

SimulationStep(t, i, kind) ==
    [title |-> <<"title", t, i>>, description |-> <<"description", t, i>>,
     prompt |-> <<t, i, kind>>, type |-> kind]

\* A plan of n steps, all of one type, as the plan prompt asks the model for.
PlanOf(t, kind, n) == [i \in 1..n |-> SimulationStep(t, i, kind)]

\* The plan a shared link can carry: it may mix both types.
SharedTopic == <<"s">>
SharedPlan == << SimulationStep(SharedTopic, 1, "image"), SimulationStep(SharedTopic, 2, "video") >>

videoGenerationMessages ==
    << "Initializing the virtual microscope...",
       "Sequencing bio-data for simulation...",
       "Assembling cellular structures...",
       "Simulating biological processes...",
       "Rendering high-fidelity animation...",
       "This can take a few minutes, the result will be worth it!",
       "Finalizing video output...",
       "Almost there..." >>

FetchingMessage == "Fetching generated video..."

----------------------------------------------------------------------------
(* Bag helpers: the pending calls are unordered and may hold equal entries *)

Put(bag, x) == bag (+) SetToBag({x})

Take(bag, x) == bag (-) SetToBag({x})

----------------------------------------------------------------------------
(* services/geminiService.ts: what the awaited calls produce *)

\* An awaited SDK call either rejects or resolves with a response.
Rejected == [kind |-> "reject"]

InvalidPlanFormat == "The AI returned an invalid lesson plan format. Please try again."
NoImageData == "Image generation failed. No image data received."
NoEditData == "Image editing failed. No image data received."
NoDownloadLink == "Video generation failed to produce a download link."
DownloadFailed == "Failed to download video"
RejectedMessage == "request failed"
NoPlanMessage == "Could not generate a simulation plan for this topic. Please try another one."

\* generateSimulationPlan: the response text either parses (to an array of
\* steps, possibly empty) or JSON.parse throws.
PlanResponses(req) ==
    { Rejected, [kind |-> "text", parses |-> FALSE, value |-> <<>>] }
    \cup { [kind |-> "text", parses |-> TRUE, value |-> PlanOf(req.topic, req.type, n)] :
             n \in 0..MaxPlanLen }

\* The outcome of one generateSimulationPlan call: a returned value or a thrown message.
generateSimulationPlan(resp) ==
    IF resp.kind = "reject" THEN [ok |-> FALSE, value |-> <<>>, message |-> RejectedMessage]
    ELSE IF resp.parses THEN [ok |-> TRUE, value |-> resp.value, message |-> ""]
    ELSE [ok |-> FALSE, value |-> <<>>, message |-> InvalidPlanFormat]

\* response.candidates?.[0]?.content?.parts || []  as a sequence of part kinds;
\* a text part carries no inlineData, the others carry an image.
ImageResponseShapes ==
    { <<>>, <<"text">>, <<"text", "png">>, <<"png", "jpeg">>, <<"nomime">> }

MimeOf(partKind) ==
    CASE partKind = "png" -> "image/png"
      [] partKind = "jpeg" -> "image/jpeg"
      [] OTHER -> ""

Part(partKind, payload) ==
    IF partKind = "text"
    THEN [hasInline |-> FALSE, data |-> NoPayload, mimeType |-> ""]
    ELSE [hasInline |-> TRUE,
          data |-> [of |-> payload.of, edit |-> payload.edit, enc |-> partKind],
          mimeType |-> MimeOf(partKind)]

ImageResponse(shape, payload) ==
    [kind |-> "parts", parts |-> [k \in 1..Len(shape) |-> Part(shape[k], payload)]]

ImageResponses(payload) ==
    { Rejected } \cup { ImageResponse(shape, payload) : shape \in ImageResponseShapes }

\* FirstInline that keeps looking and returns the last part with inlineData.
RECURSIVE FirstInline_last(_)
FirstInline_last(parts) ==
    IF parts = <<>> THEN [found |-> FALSE, base64 |-> NoPayload, mimeType |-> ""]
    ELSE LET rest == FirstInline_last(Tail(parts)) IN
         IF rest.found THEN rest
         ELSE IF Head(parts).hasInline
              THEN [found |-> TRUE, base64 |-> Head(parts).data, mimeType |-> Head(parts).mimeType]
              ELSE rest

\* for (const part of parts) { if (part.inlineData) return {...} }
RECURSIVE FirstInline(_)
FirstInline(parts) ==
    IF parts = <<>> THEN [found |-> FALSE, base64 |-> NoPayload, mimeType |-> ""]
    ELSE IF Head(parts).hasInline
         THEN [found |-> TRUE, base64 |-> Head(parts).data, mimeType |-> Head(parts).mimeType]
         ELSE FirstInline(Tail(parts))

generateImage(resp) ==
    IF resp.kind = "reject"
    THEN [ok |-> FALSE, base64 |-> NoPayload, mimeType |-> "", message |-> RejectedMessage]
    ELSE LET f == FirstInline(resp.parts) IN
         IF f.found
         THEN [ok |-> TRUE, base64 |-> f.base64, mimeType |-> f.mimeType, message |-> ""]
         ELSE [ok |-> FALSE, base64 |-> NoPayload, mimeType |-> "", message |-> NoImageData]

editImage(resp) ==
    IF resp.kind = "reject"
    THEN [ok |-> FALSE, base64 |-> NoPayload, mimeType |-> "", message |-> RejectedMessage]
    ELSE LET f == FirstInline(resp.parts) IN
         IF f.found
         THEN [ok |-> TRUE, base64 |-> f.base64, mimeType |-> f.mimeType, message |-> ""]
         ELSE [ok |-> FALSE, base64 |-> NoPayload, mimeType |-> "", message |-> NoEditData]

\* `data:${mimeType};base64,${base64}` and its inverse, data.split(',')[1]
ImageDataUrl(mimeType, base64) == <<"data:", mimeType, ";base64,", base64>>

Base64Of(dataUrl) == dataUrl[4]

----------------------------------------------------------------------------
(* generateVideo: one call, as the record of its local state.              *)
(*   phase     where the call is suspended                                 *)
(*               "submit"  awaiting ai.models.generateVideos               *)
(*               "sleep"   awaiting the 10 s timer of a poll tick          *)
(*               "poll"    awaiting ai.operations.getVideosOperation       *)
(*               "fetch"   awaiting fetch(downloadLink) and its blob       *)
(*               "return"  returned a video URL; "throw" threw             *)
(*   messageIndex  the loop counter (0 before `let messageIndex = 1`)      *)
(*   delivered     every message passed to onProgress so far, in order     *)
(*   ticks         loop iterations entered; requests: status requests sent *)

NoCall == [phase |-> "none", messageIndex |-> 0, delivered |-> <<>>, ticks |-> 0,
           requests |-> 0, message |-> ""]

\* The operation object an SDK call resolves with.
Operations == { [kind |-> "op", done |-> d, uri |-> u] : d \in BOOLEAN, u \in BOOLEAN }
    \ { [kind |-> "op", done |-> FALSE, uri |-> TRUE] }

OperationResponses == { Rejected } \cup Operations

FetchResponses == { Rejected, [kind |-> "http", ok |-> TRUE], [kind |-> "http", ok |-> FALSE] }

onProgress(call, message) == [call EXCEPT !.delivered = Append(@, message)]

\* line 124: onProgress(videoGenerationMessages[0]), then await generateVideos
VideoStart ==
    [onProgress(NoCall, videoGenerationMessages[1]) EXCEPT !.phase = "submit"]

\* VideoLoopHead with a poll tick that reports nothing to onProgress.
VideoLoopHead_silentTick(call, operation) ==
    IF ~operation.done
    THEN [call EXCEPT !.messageIndex = @ + 1, !.ticks = @ + 1, !.phase = "sleep"]
    ELSE IF ~operation.uri
         THEN [call EXCEPT !.phase = "throw", !.message = NoDownloadLink]
         ELSE [onProgress(call, FetchingMessage) EXCEPT !.phase = "fetch"]

\* VideoLoopHead that gives up after three poll ticks.
VideoLoopHead_timeout(call, operation) ==
    IF ~operation.done
    THEN IF call.ticks >= 3
         THEN [call EXCEPT !.phase = "throw", !.message = "Video generation timed out."]
         ELSE [onProgress(call,
                          videoGenerationMessages[(call.messageIndex % Len(videoGenerationMessages)) + 1])
                 EXCEPT !.messageIndex = @ + 1, !.ticks = @ + 1, !.phase = "sleep"]
    ELSE IF ~operation.uri
         THEN [call EXCEPT !.phase = "throw", !.message = NoDownloadLink]
         ELSE [onProgress(call, FetchingMessage) EXCEPT !.phase = "fetch"]

\* lines 141-154: the loop head with `operation` in hand, up to the next await
VideoLoopHead(call, operation) ==
    IF ~operation.done
    THEN [onProgress(call,
                     videoGenerationMessages[(call.messageIndex % Len(videoGenerationMessages)) + 1])
            EXCEPT !.messageIndex = @ + 1, !.ticks = @ + 1, !.phase = "sleep"]
    ELSE IF ~operation.uri
         THEN [call EXCEPT !.phase = "throw", !.message = NoDownloadLink]
         ELSE [onProgress(call, FetchingMessage) EXCEPT !.phase = "fetch"]

\* VideoSubmitted with the loop counter started at 0 instead of 1.
VideoSubmitted_fromZero(call, resp) ==
    IF resp.kind = "reject"
    THEN [call EXCEPT !.phase = "throw", !.message = RejectedMessage]
    ELSE VideoLoopHead([call EXCEPT !.messageIndex = 0], resp)

\* lines 134-140: generateVideos resolved; let messageIndex = 1; enter the loop
VideoSubmitted(call, resp) ==
    IF resp.kind = "reject"
    THEN [call EXCEPT !.phase = "throw", !.message = RejectedMessage]
    ELSE VideoLoopHead([call EXCEPT !.messageIndex = 1], resp)

\* VideoTimerFired that issues the status request twice.
VideoTimerFired_twice(call) ==
    [call EXCEPT !.phase = "poll", !.requests = @ + 2]

\* line 144: the timer resolved; line 145 issues the status request
VideoTimerFired(call) ==
    [call EXCEPT !.phase = "poll", !.requests = @ + 1]

\* line 145: getVideosOperation resolved; back to the loop head
VideoPolled(call, resp) ==
    IF resp.kind = "reject"
    THEN [call EXCEPT !.phase = "throw", !.message = RejectedMessage]
    ELSE VideoLoopHead(call, resp)

\* lines 154-159: fetch resolved
VideoFetched(call, resp) ==
    IF resp.kind = "reject"
    THEN [call EXCEPT !.phase = "throw", !.message = RejectedMessage]
    ELSE IF ~resp.ok
         THEN [call EXCEPT !.phase = "throw", !.message = DownloadFailed]
         ELSE [call EXCEPT !.phase = "return"]

----------------------------------------------------------------------------
(* App: the component state as one record, and the handlers as functions   *)
(* from the state of the render they were created in to the next state.    *)

St == [topic |-> topic, simulationPlan |-> simulationPlan,
       currentStepIndex |-> currentStepIndex, visualContent |-> visualContent,
       loading |-> loading, videoStatus |-> videoStatus, error |-> error,
       planInflight |-> planInflight, inflight |-> inflight]

Commit(s) ==
    /\ topic' = s.topic
    /\ simulationPlan' = s.simulationPlan
    /\ currentStepIndex' = s.currentStepIndex
    /\ visualContent' = s.visualContent
    /\ loading' = s.loading
    /\ videoStatus' = s.videoStatus
    /\ error' = s.error
    /\ planInflight' = s.planInflight
    /\ inflight' = s.inflight

NoStep == [title |-> <<>>, description |-> <<>>, prompt |-> <<>>, type |-> "undefined"]

\* simulationPlan[currentStepIndex], undefined when out of range
HasCurrentStep(s) ==
    s.currentStepIndex >= 0 /\ s.currentStepIndex < Len(s.simulationPlan)

CurrentStep(s) == s.simulationPlan[s.currentStepIndex + 1]

\* A pending visual call: what its closure captured, and for a video the
\* state of the generateVideo call it awaits.  `latest` records that no
\* visual call was started after this one; the code keeps no such mark.
VisualRequest(kind, s, style, base, call) ==
    [kind |-> kind, step |-> CurrentStep(s), index |-> s.currentStepIndex,
     style |-> style, base |-> base, editPrompt |-> <<>>, call |-> call,
     latest |-> TRUE]

\* The pending calls once a further call is started after them.
Superseded(bag) == BagOfAll(LAMBDA r : [r EXCEPT !.latest = FALSE], bag)

PutLatest(bag, x) == Put(Superseded(bag), x)

\* generateVisualForCurrentStep without its setError(null).
generateVisualForCurrentStep_keepsError(s, styleOverride) ==
    IF Len(s.simulationPlan) = 0 THEN s
    ELSE IF ~HasCurrentStep(s) THEN s
    ELSE LET currentStep == CurrentStep(s)
             cleared == [s EXCEPT !.loading.visual = TRUE,
                                  !.visualContent = NullVisual,
                                  !.videoStatus = ""]
         IN IF currentStep.type = "image"
            THEN [cleared EXCEPT !.inflight =
                     PutLatest(@, VisualRequest("image", s, NoStyle, NullVisual, NoCall))]
            ELSE LET styleToUse == IF styleOverride = NoStyle THEN "animation" ELSE styleOverride
                     call == VideoStart
                 IN [cleared EXCEPT
                        !.videoStatus = call.delivered[Len(call.delivered)],
                        !.inflight = PutLatest(@, VisualRequest("video", s, styleToUse, NullVisual, call))]

\* lines 239-249 (and 257 up to the first await inside generateVideo)
generateVisualForCurrentStep(s, styleOverride) ==
    IF Len(s.simulationPlan) = 0 THEN s
    ELSE IF ~HasCurrentStep(s) THEN s
    ELSE LET currentStep == CurrentStep(s)
             cleared == [s EXCEPT !.loading.visual = TRUE,
                                  !.visualContent = NullVisual,
                                  !.error = NullError,
                                  !.videoStatus = ""]
         IN IF currentStep.type = "image"
            THEN [cleared EXCEPT !.inflight =
                     PutLatest(@, VisualRequest("image", s, NoStyle, NullVisual, NoCall))]
            ELSE LET styleToUse == IF styleOverride = NoStyle THEN "animation" ELSE styleOverride
                     call == VideoStart
                 IN [cleared EXCEPT
                        !.videoStatus = call.delivered[Len(call.delivered)],
                        !.inflight = PutLatest(@, VisualRequest("video", s, styleToUse, NullVisual, call))]

\* VisualEffect whose dependencies are [simulationPlan.length] only.
VisualEffect_lengthOnly(before, after) ==
    IF Len(after.simulationPlan) # Len(before.simulationPlan)
       /\ Len(after.simulationPlan) > 0
    THEN generateVisualForCurrentStep(after, NoStyle)
    ELSE after

\* lines 268-272: the effect runs after a render whose dependencies
\* [currentStepIndex, simulationPlan.length] differ from the previous render's.
VisualEffect(before, after) ==
    IF <<after.currentStepIndex, Len(after.simulationPlan)>>
         # <<before.currentStepIndex, Len(before.simulationPlan)>>
       /\ Len(after.simulationPlan) > 0
    THEN generateVisualForCurrentStep(after, NoStyle)
    ELSE after

\* handleTopicSubmit without its setVisualContent(null).
handleTopicSubmit_keepsVisual(s, newTopic, simulationType) ==
    [s EXCEPT !.topic = newTopic,
              !.simulationPlan = <<>>,
              !.currentStepIndex = 0,
              !.error = NullError,
              !.loading = [plan |-> TRUE, visual |-> FALSE],
              !.planInflight = Put(@, [topic |-> newTopic, type |-> simulationType])]

\* lines 212-223: handleTopicSubmit up to its await
handleTopicSubmit(s, newTopic, simulationType) ==
    [s EXCEPT !.topic = newTopic,
              !.simulationPlan = <<>>,
              !.currentStepIndex = 0,
              !.visualContent = NullVisual,
              !.error = NullError,
              !.loading = [plan |-> TRUE, visual |-> FALSE],
              !.planInflight = Put(@, [topic |-> newTopic, type |-> simulationType])]

\* handleTopicSubmitSettled without the else branch that reports an empty plan.
handleTopicSubmitSettled_silentEmpty(s, req, resp) ==
    LET result == generateSimulationPlan(resp)
        body == IF result.ok
                THEN IF Len(result.value) > 0
                     THEN [s EXCEPT !.simulationPlan = result.value]
                     ELSE s
                ELSE [s EXCEPT !.error = result.message]
    IN [body EXCEPT !.loading = [plan |-> FALSE, visual |-> FALSE],
                    !.planInflight = Take(@, req)]

\* handleTopicSubmitSettled that ends plan loading only when no error was thrown.
handleTopicSubmitSettled_noFinally(s, req, resp) ==
    LET result == generateSimulationPlan(resp)
    IN IF result.ok
       THEN [(IF Len(result.value) > 0
              THEN [s EXCEPT !.simulationPlan = result.value]
              ELSE [s EXCEPT !.error = NoPlanMessage])
               EXCEPT !.loading = [plan |-> FALSE, visual |-> FALSE],
                      !.planInflight = Take(@, req)]
       ELSE [s EXCEPT !.error = result.message,
                      !.planInflight = Take(@, req)]

\* lines 226-236: handleTopicSubmit after its await
handleTopicSubmitSettled(s, req, resp) ==
    LET result == generateSimulationPlan(resp)
        body == IF result.ok
                THEN IF Len(result.value) > 0
                     THEN [s EXCEPT !.simulationPlan = result.value]
                     ELSE [s EXCEPT !.error = NoPlanMessage]
                ELSE [s EXCEPT !.error = result.message]
    IN [body EXCEPT !.loading = [plan |-> FALSE, visual |-> FALSE],
                    !.planInflight = Take(@, req)]

\* goToStep without the lower bound check.
goToStep_noLowerBound(s, index) ==
    IF index < Len(s.simulationPlan)
    THEN [s EXCEPT !.currentStepIndex = index]
    ELSE s

\* goToStep with the upper bound off by one.
goToStep_offByOne(s, index) ==
    IF index >= 0 /\ index <= Len(s.simulationPlan)
    THEN [s EXCEPT !.currentStepIndex = index]
    ELSE s

\* lines 296-300
goToStep(s, index) ==
    IF index >= 0 /\ index < Len(s.simulationPlan)
    THEN [s EXCEPT !.currentStepIndex = index]
    ELSE s

\* lines 274-282: handleImageEdit up to its await
handleImageEdit(s, editPrompt) ==
    IF s.visualContent.type = "null" \/ s.visualContent.type # "image"
       \/ s.visualContent.mimeType = ""
    THEN s
    ELSE [s EXCEPT !.loading.visual = TRUE,
                   !.error = NullError,
                   !.inflight = PutLatest(@,
                       [kind |-> "edit",
                        step |-> IF HasCurrentStep(s) THEN CurrentStep(s) ELSE NoStep,
                        index |-> s.currentStepIndex,
                        style |-> NoStyle, base |-> s.visualContent,
                        editPrompt |-> editPrompt, call |-> NoCall,
                        latest |-> TRUE])]

\* handleVideoRegenerate that drops the chosen style.
handleVideoRegenerate_ignoresStyle(s, newStyle) == generateVisualForCurrentStep(s, NoStyle)

\* lines 292-294
handleVideoRegenerate(s, newStyle) == generateVisualForCurrentStep(s, newStyle)

\* imageSettled whose finally block resets both loading flags.
imageSettled_resetsLoading(s, req, resp) ==
    LET result == generateImage(resp)
        body == IF result.ok
                THEN [s EXCEPT !.visualContent =
                        [type |-> "image",
                         data |-> ImageDataUrl(result.mimeType, result.base64),
                         mimeType |-> result.mimeType]]
                ELSE [s EXCEPT !.error = result.message]
    IN [body EXCEPT !.loading = [plan |-> FALSE, visual |-> FALSE],
                    !.videoStatus = "",
                    !.inflight = Take(@, req)]

\* lines 252-254 and 260-265: the image branch after its await
imageSettled(s, req, resp) ==
    LET result == generateImage(resp)
        body == IF result.ok
                THEN [s EXCEPT !.visualContent =
                        [type |-> "image",
                         data |-> ImageDataUrl(result.mimeType, result.base64),
                         mimeType |-> result.mimeType]]
                ELSE [s EXCEPT !.error = result.message]
    IN [body EXCEPT !.loading.visual = FALSE,
                    !.videoStatus = "",
                    !.inflight = Take(@, req)]

\* editSettled that ends visual loading only after a successful edit.
editSettled_flagStuck(s, req, resp) ==
    LET result == editImage(resp)
    IN IF result.ok
       THEN [s EXCEPT !.visualContent =
                        [type |-> "image",
                         data |-> ImageDataUrl(result.mimeType, result.base64),
                         mimeType |-> result.mimeType],
                      !.loading.visual = FALSE,
                      !.inflight = Take(@, req)]
       ELSE [s EXCEPT !.error = result.message,
                      !.inflight = Take(@, req)]

\* editSettled that keeps the MIME type of the image it edited.
editSettled_keepsMime(s, req, resp) ==
    LET result == editImage(resp)
        body == IF result.ok
                THEN [s EXCEPT !.visualContent =
                        [type |-> "image",
                         data |-> ImageDataUrl(req.base.mimeType, result.base64),
                         mimeType |-> req.base.mimeType]]
                ELSE [s EXCEPT !.error = result.message]
    IN [body EXCEPT !.loading.visual = FALSE,
                    !.inflight = Take(@, req)]

\* editSettled that removes the image when the edit fails.
editSettled_clearsOnFailure(s, req, resp) ==
    LET result == editImage(resp)
        body == IF result.ok
                THEN [s EXCEPT !.visualContent =
                        [type |-> "image",
                         data |-> ImageDataUrl(result.mimeType, result.base64),
                         mimeType |-> result.mimeType]]
                ELSE [s EXCEPT !.error = result.message, !.visualContent = NullVisual]
    IN [body EXCEPT !.loading.visual = FALSE,
                    !.inflight = Take(@, req)]

\* lines 282-289: handleImageEdit after its await
editSettled(s, req, resp) ==
    LET result == editImage(resp)
        body == IF result.ok
                THEN [s EXCEPT !.visualContent =
                        [type |-> "image",
                         data |-> ImageDataUrl(result.mimeType, result.base64),
                         mimeType |-> result.mimeType]]
                ELSE [s EXCEPT !.error = result.message]
    IN [body EXCEPT !.loading.visual = FALSE,
                    !.inflight = Take(@, req)]

\* The video branch while generateVideo is still running: the call moved to
\* `call` and passed its new messages to setVideoStatus.
videoProgress(s, req, call) ==
    LET old == req.call IN
    [s EXCEPT !.inflight = Put(Take(@, req), [req EXCEPT !.call = call]),
              !.videoStatus = IF Len(call.delivered) > Len(old.delivered)
                              THEN call.delivered[Len(call.delivered)]
                              ELSE @]

\* videoSettled without the setVideoStatus('') of its finally block.
videoSettled_keepsStatus(s, req, call) ==
    LET body == IF call.phase = "return"
                THEN [s EXCEPT !.visualContent =
                        [type |-> "video",
                         data |-> [blobOf |-> req.step.prompt, style |-> req.style],
                         mimeType |-> ""]]
                ELSE [s EXCEPT !.error = call.message]
    IN [body EXCEPT !.loading.visual = FALSE,
                    !.inflight = Take(@, req)]

\* lines 257-265: the video branch once generateVideo returned or threw
videoSettled(s, req, call) ==
    LET body == IF call.phase = "return"
                THEN [s EXCEPT !.visualContent =
                        [type |-> "video",
                         data |-> [blobOf |-> req.step.prompt, style |-> req.style],
                         mimeType |-> ""]]
                ELSE [s EXCEPT !.error = call.message]
    IN [body EXCEPT !.loading.visual = FALSE,
                    !.videoStatus = "",
                    !.inflight = Take(@, req)]

\* One step of the video branch: generateVideo moved to `call`.
videoStep(s, req, call) ==
    IF call.phase \in {"return", "throw"}
    THEN videoSettled(s, req, call)
    ELSE videoProgress(s, req, call)

\* lines 188-210: the mount effect. `shared` is the `simulation` query
\* parameter after atob, decodeURIComponent and JSON.parse: absent, not
\* decodable, or an object with a topic and a plan.
SharedInputs ==
    { [kind |-> "none"], [kind |-> "bad"],
      [kind |-> "data", topic |-> <<>>, simulationPlan |-> SharedPlan],
      [kind |-> "data", topic |-> SharedTopic, simulationPlan |-> <<>>],
      [kind |-> "data", topic |-> SharedTopic, simulationPlan |-> SharedPlan] }

loadSimulationFromURL(s, shared) ==
    IF shared.kind # "data" THEN s
    ELSE IF shared.topic # <<>> /\ Len(shared.simulationPlan) > 0
         THEN [s EXCEPT !.topic = shared.topic, !.simulationPlan = shared.simulationPlan]
         ELSE s

----------------------------------------------------------------------------
(* The share link.  Text is a sequence of code points; a string of the     *)
(* state is a sequence of characters, and a step's title, description and  *)
(* prompt stand for the strings given by TitleText and PromptText.         *)

ShareBad == [kind |-> "bad"]

CodePoint(ch) ==
    CASE ch = " " -> 32
      [] ch = "&" -> 38
      [] ch = "l" -> 108
      [] ch = "m" -> 109
      [] ch = "s" -> 115
      [] ch = "~" -> 126
      [] ch = "e-acute" -> 233

Ascii(word) ==
    CASE word = "topic" -> <<116, 111, 112, 105, 99>>
      [] word = "simulationPlan" ->
            <<115, 105, 109, 117, 108, 97, 116, 105, 111, 110, 80, 108, 97, 110>>
      [] word = "simulation" -> <<115, 105, 109, 117, 108, 97, 116, 105, 111, 110>>
      [] word = "title" -> <<116, 105, 116, 108, 101>>
      [] word = "description" -> <<100, 101, 115, 99, 114, 105, 112, 116, 105, 111, 110>>
      [] word = "prompt" -> <<112, 114, 111, 109, 112, 116>>
      [] word = "type" -> <<116, 121, 112, 101>>
      [] word = "image" -> <<105, 109, 97, 103, 101>>
      [] word = "video" -> <<118, 105, 100, 101, 111>>

Text(string) == [k \in 1..Len(string) |-> CodePoint(string[k])]

TitleText(field) == Ascii(field[1]) \o Text(field[2]) \o <<48 + field[3]>>

PromptText(field) == Text(field[1]) \o <<48 + field[2]>> \o Ascii(field[3])

\* The texts of a sequence one after the other (halving keeps the nesting flat).
RECURSIVE Concat(_)
Concat(texts) ==
    IF texts = <<>> THEN <<>>
    ELSE IF Len(texts) = 1 THEN texts[1]
    ELSE LET mid == Len(texts) \div 2 IN
         Concat(SubSeq(texts, 1, mid)) \o Concat(SubSeq(texts, mid + 1, Len(texts)))

RECURSIVE Join(_, _)
Join(texts, separator) ==
    IF texts = <<>> THEN <<>>
    ELSE IF Len(texts) = 1 THEN texts[1]
    ELSE texts[1] \o separator \o Join(Tail(texts), separator)

\* A JSON string literal: quotes around the text, with " and \ escaped.
JSONstring(text) ==
    <<34>> \o Concat([k \in 1..Len(text) |->
                        IF text[k] \in {34, 92} THEN <<92, text[k]>> ELSE <<text[k]>>])
           \o <<34>>

JSONmember(key, valueText) == JSONstring(Ascii(key)) \o <<58>> \o valueText

JSONobject(members) == <<123>> \o Join(members, <<44>>) \o <<125>>

JSONstep(step) ==
    JSONobject(<< JSONmember("title", JSONstring(TitleText(step.title))),
                  JSONmember("description", JSONstring(TitleText(step.description))),
                  JSONmember("prompt", JSONstring(PromptText(step.prompt))),
                  JSONmember("type", JSONstring(Ascii(step.type))) >>)

\* JSON.stringify({ topic, simulationPlan })
JSONstringify(data) ==
    JSONobject(<< JSONmember("topic", JSONstring(Text(data.topic))),
                  JSONmember("simulationPlan",
                      <<91>> \o Join([k \in 1..Len(data.simulationPlan) |->
                                        JSONstep(data.simulationPlan[k])], <<44>>)
                             \o <<93>>) >>)

\* The bytes of a code point in UTF-8.
Utf8(c) ==
    IF c < 128 THEN <<c>>
    ELSE IF c < 2048 THEN <<192 + (c \div 64), 128 + (c % 64)>>
    ELSE <<224 + (c \div 4096), 128 + ((c \div 64) % 64), 128 + (c % 64)>>

\* A-Z a-z 0-9 - _ . ! ~ * ' ( )  are left as they are by encodeURIComponent.
UriUnreserved ==
    (65..90) \cup (97..122) \cup (48..57) \cup {45, 95, 46, 33, 126, 42, 39, 40, 41}

HexDigit(d) == IF d < 10 THEN 48 + d ELSE 55 + d

encodeURIComponent(text) ==
    Concat([k \in 1..Len(text) |->
              IF text[k] \in UriUnreserved THEN <<text[k]>>
              ELSE LET bytes == Utf8(text[k]) IN
                   Concat([b \in 1..Len(bytes) |->
                             <<37, HexDigit(bytes[b] \div 16), HexDigit(bytes[b] % 16)>>])])

\* The Base64 alphabet: A-Z a-z 0-9 + /
Base64Char(v) ==
    IF v < 26 THEN 65 + v
    ELSE IF v < 52 THEN 97 + (v - 26)
    ELSE IF v < 62 THEN 48 + (v - 52)
    ELSE IF v = 62 THEN 43 ELSE 47

Base64Value(c) ==
    IF c \in 65..90 THEN c - 65
    ELSE IF c \in 97..122 THEN c - 97 + 26
    ELSE IF c \in 48..57 THEN c - 48 + 52
    ELSE IF c = 43 THEN 62
    ELSE IF c = 47 THEN 63 ELSE -1

\* btoa: three bytes to four characters, the last group padded with "="
btoa(bytes) ==
    LET n == Len(bytes)
        byte(k) == IF k <= n THEN bytes[k] ELSE 0
    IN [j \in 1..(4 * ((n + 2) \div 3)) |->
          LET g == 3 * ((j - 1) \div 4)
              pos == (j - 1) % 4
          IN CASE pos = 0 -> Base64Char(byte(g + 1) \div 4)
               [] pos = 1 -> Base64Char((byte(g + 1) % 4) * 16 + (byte(g + 2) \div 16))
               [] pos = 2 -> IF g + 2 > n THEN 61
                             ELSE Base64Char((byte(g + 2) % 16) * 4 + (byte(g + 3) \div 64))
               [] pos = 3 -> IF g + 3 > n THEN 61
                             ELSE Base64Char(byte(g + 3) % 64)]

AsciiWhitespace == {9, 10, 12, 13, 32}

\* atob: forgiving-base64 decode; it throws on what is not Base64.
atob(text) ==
    LET stripped == SelectSeq(text, LAMBDA c : c \notin AsciiWhitespace)
        padding == IF Len(stripped) % 4 = 0 /\ Len(stripped) > 0 /\ stripped[Len(stripped)] = 61
                   THEN IF stripped[Len(stripped) - 1] = 61 THEN 2 ELSE 1
                   ELSE 0
        chars == SubSeq(stripped, 1, Len(stripped) - padding)
        m == Len(chars)
        value(i) == Base64Value(chars[i])
    IN IF m % 4 = 1 \/ \E i \in 1..m : value(i) = -1
       THEN [ok |-> FALSE, value |-> <<>>]
       ELSE [ok |-> TRUE,
             value |-> [k \in 1..((m * 6) \div 8) |->
                          LET i == (((k - 1) * 8) \div 6) + 1
                              r == ((k - 1) * 8) % 6
                          IN CASE r = 0 -> value(i) * 4 + (value(i + 1) \div 16)
                               [] r = 2 -> (value(i) % 16) * 16 + (value(i + 1) \div 4)
                               [] r = 4 -> (value(i) % 4) * 64 + value(i + 1)]]

HexValue(c) ==
    IF c \in 48..57 THEN c - 48
    ELSE IF c \in 65..70 THEN c - 55
    ELSE IF c \in 97..102 THEN c - 87 ELSE -1

\* The byte written as %XX at position i of the text, or -1.
EscapedByte(text, i) ==
    IF i + 2 <= Len(text) /\ text[i] = 37
       /\ HexValue(text[i + 1]) >= 0 /\ HexValue(text[i + 2]) >= 0
    THEN HexValue(text[i + 1]) * 16 + HexValue(text[i + 2])
    ELSE -1

\* decodeURIComponent: every "%" must start an escape %XX; the escaped bytes
\* are read as UTF-8 (a lead byte followed by its continuation bytes, each
\* escaped); it throws on a malformed escape or byte sequence.
decodeURIComponent(text) ==
    LET n == Len(text)
        inEscape(i) == (i > 1 /\ text[i - 1] = 37) \/ (i > 2 /\ text[i - 2] = 37)
        starts == SelectSeq([i \in 1..n |-> i], LAMBDA i : text[i] = 37 \/ ~inEscape(i))
        escaped(k) == text[starts[k]] = 37
        byte(k) == IF escaped(k) THEN EscapedByte(text, starts[k]) ELSE text[starts[k]]
        continues(k) == k >= 1 /\ k <= Len(starts) /\ escaped(k) /\ byte(k) \in 128..191
        more(k) == IF ~escaped(k) \/ byte(k) < 128 THEN 0
                   ELSE IF byte(k) \in 194..223 THEN 1
                   ELSE IF byte(k) \in 224..239 THEN 2
                   ELSE IF byte(k) \in 240..244 THEN 3 ELSE -1
        leads(k) == ~continues(k) /\ more(k) >= 0 /\ \A j \in 1..more(k) : continues(k + j)
        led(k) == \E j \in 1..3 : k - j >= 1 /\ ~continues(k - j) /\ more(k - j) >= j
                                    /\ \A h \in 1..(j - 1) : continues(k - h)
        codePoint(k) ==
            CASE more(k) = 0 -> byte(k)
              [] more(k) = 1 -> (byte(k) - 192) * 64 + (byte(k + 1) - 128)
              [] more(k) = 2 -> (byte(k) - 224) * 4096 + (byte(k + 1) - 128) * 64
                                + (byte(k + 2) - 128)
              [] more(k) = 3 -> (byte(k) - 240) * 262144 + (byte(k + 1) - 128) * 4096
                                + (byte(k + 2) - 128) * 64 + (byte(k + 3) - 128)
    IN IF \A k \in 1..Len(starts) :
             /\ escaped(k) => byte(k) >= 0
             /\ IF continues(k) THEN led(k) ELSE leads(k)
       THEN LET units == SelectSeq([k \in 1..Len(starts) |-> k], LAMBDA k : ~continues(k))
            IN [ok |-> TRUE, value |-> [u \in 1..Len(units) |-> codePoint(units[u])]]
       ELSE [ok |-> FALSE, value |-> <<>>]

\* part_000 lines 151-155: the query string of the link handleShare builds
handleShare(s) ==
    LET dataToShare == [topic |-> s.topic, simulationPlan |-> s.simulationPlan]
        jsonString == JSONstringify(dataToShare)
        base64String == btoa(encodeURIComponent(jsonString))
    IN <<63>> \o Ascii("simulation") \o <<61>> \o base64String

\* new URLSearchParams(search).get('simulation'): the pairs are split at "&"
\* and at their first "=", and "+" in a value reads as a space.  (Percent
\* escapes would be decoded too; Base64 text has none.)
URLSearchParamsGet(search, name) ==
    LET query == IF search # <<>> /\ search[1] = 63 THEN Tail(search) ELSE search
        key == Ascii(name) \o <<61>>
    IN IF Len(query) < Len(key) \/ SubSeq(query, 1, Len(key)) # key
       THEN [found |-> FALSE, value |-> <<>>]
       ELSE LET raw == SubSeq(query, Len(key) + 1, Len(query))
                ends == { k \in 1..Len(raw) : raw[k] = 38 }
                cut == IF ends = {} THEN Len(raw)
                       ELSE (CHOOSE k \in ends : \A j \in ends : k <= j) - 1
            IN [found |-> TRUE,
                value |-> [k \in 1..cut |-> IF raw[k] = 43 THEN 32 ELSE raw[k]]]

\* What the user can have typed into the topic box of a session whose
\* simulations get shared: plain, with "~", non-ASCII with a separator.
ShareTypedTopics == { <<"m">>, <<"~">>, <<"e-acute", "&">> }

\* The topic and plan of every state in which the Share button is shown.
ShareableData ==
    { [topic |-> t, simulationPlan |-> PlanOf(t, kind, n)] :
        t \in ShareTypedTopics, kind \in SimulationTypes, n \in 1..MaxPlanLen }
    \cup { [topic |-> SharedTopic, simulationPlan |-> SharedPlan] }

JSONtexts == [d \in ShareableData |-> JSONstringify(d)]

\* JSON.parse: the object whose JSON text this is; it throws on other text.
JSONparse(text) ==
    IF \E d \in ShareableData : JSONtexts[d] = text
    THEN LET d == CHOOSE d \in ShareableData : JSONtexts[d] = text IN
         [kind |-> "data", topic |-> d.topic, simulationPlan |-> d.simulationPlan]
    ELSE ShareBad

\* lines 191-196: from window.location.search to the parsed object
SharedFromURL(search) ==
    LET sharedData == URLSearchParamsGet(search, "simulation") IN
    IF ~sharedData.found \/ sharedData.value = <<>> THEN [kind |-> "none"]
    ELSE LET bytes == atob(sharedData.value) IN
         IF ~bytes.ok THEN ShareBad
         ELSE LET jsonString == decodeURIComponent(bytes.value) IN
              IF ~jsonString.ok THEN ShareBad ELSE JSONparse(jsonString.value)

\* The page is opened without a query or on a link that handleShare built.
SharedLinks == { <<>> } \cup { handleShare(d) : d \in ShareableData }

SharedFromLinks == { SharedFromURL(search) : search \in SharedLinks }

----------------------------------------------------------------------------
(* SimulationViewer and TopicInput: which handler calls the rendered UI    *)
(* lets through.                                                           *)

\* part_000 lines 202-218: the viewer renders its panels only past these returns
ViewerShown(s) ==
    /\ ~(s.topic = <<>> /\ ~s.loading.plan)
    /\ ~s.loading.plan
    /\ Len(s.simulationPlan) # 0

\* part_000 lines 309-311 and 38-44: the editor is rendered and handleEdit passes
EditAccepted(s, typed) ==
    /\ ViewerShown(s)
    /\ s.visualContent.type = "image"
    /\ ~s.loading.visual
    /\ Trim(typed) # <<>>

\* part_000 lines 305-307 and 74-78: the options are rendered and the click passes
RegenerateAccepted(s) ==
    /\ ViewerShown(s)
    /\ HasCurrentStep(s)
    /\ CurrentStep(s).type = "video"
    /\ ~s.loading.visual

\* TopicInput.tsx lines 17-22
SubmitAccepted(s, typed) == Trim(typed) # <<>> /\ ~s.loading.plan

----------------------------------------------------------------------------
(* What each user action and each settled call makes of the state: the     *)
(* handler, behind the guards of the component that calls it, followed by  *)
(* the effect of the render it causes.                                     *)

MountResult(s, shared) == VisualEffect(s, loadSimulationFromURL(s, shared))

TopicSubmitResult(s, typed, simulationType) ==
    IF SubmitAccepted(s, typed)
    THEN VisualEffect(s, handleTopicSubmit(s, Trim(typed), simulationType))
    ELSE s

PlanSettledResult(s, req, resp) == VisualEffect(s, handleTopicSubmitSettled(s, req, resp))

GoToStepResult(s, index) == VisualEffect(s, goToStep(s, index))

ImageEditResult(s, typed) ==
    IF EditAccepted(s, typed) THEN handleImageEdit(s, Trim(typed)) ELSE s

VideoRegenerateResult(s, newStyle) ==
    IF RegenerateAccepted(s) THEN handleVideoRegenerate(s, newStyle) ELSE s

\* The image an edit call is asked for: its base image, changed as prompted.
EditPayload(req) ==
    [of |-> Base64Of(req.base.data).of, edit |-> req.editPrompt]

\* The responses the image endpoint can give to a pending image or edit call.
ResponsesTo(req) ==
    IF req.kind = "edit"
    THEN ImageResponses(EditPayload(req))
    ELSE ImageResponses([of |-> req.step.prompt, edit |-> <<>>])

----------------------------------------------------------------------------
(* Actions.  `room` bounds the visual calls pending at once and `polls`    *)
(* the poll ticks of one generateVideo call.                               *)

Init ==
    /\ mounted = FALSE
    /\ topic = <<>>
    /\ simulationPlan = <<>>
    /\ currentStepIndex = 0
    /\ visualContent = NullVisual
    /\ loading = [plan |-> FALSE, visual |-> FALSE]
    /\ videoStatus = ""
    /\ error = NullError
    /\ planInflight = EmptyBag
    /\ inflight = EmptyBag

Step(s, room) ==
    /\ BagCardinality(s.inflight) <= room
    /\ Commit(s)
    /\ mounted' = TRUE

Mount(shared, room) ==
    /\ ~mounted
    /\ Step(MountResult(St, shared), room)

TopicSubmit(typed, simulationType, room) ==
    /\ mounted
    /\ Step(TopicSubmitResult(St, typed, simulationType), room)

PlanSettled(req, resp, room) ==
    /\ mounted
    /\ Step(PlanSettledResult(St, req, resp), room)

GoToStep(index, room) ==
    /\ mounted
    /\ Step(GoToStepResult(St, index), room)

ImageEdit(typed, room) ==
    /\ mounted
    /\ Step(ImageEditResult(St, typed), room)

VideoRegenerate(newStyle, room) ==
    /\ mounted
    /\ Step(VideoRegenerateResult(St, newStyle), room)

ImageSettled(req, resp, room) ==
    /\ req.kind = "image"
    /\ Step(imageSettled(St, req, resp), room)

EditSettled(req, resp, room) ==
    /\ req.kind = "edit"
    /\ Step(editSettled(St, req, resp), room)

\* The service may answer "not done" to at most `polls` checks of one call.
MayAnswer(call, resp, polls) ==
    (resp.kind = "op" /\ ~resp.done) => call.ticks < polls

VideoSubmitReturn(req, resp, room, polls) ==
    /\ req.kind = "video"
    /\ req.call.phase = "submit"
    /\ MayAnswer(req.call, resp, polls)
    /\ Step(videoStep(St, req, VideoSubmitted(req.call, resp)), room)

VideoTimer(req, room) ==
    /\ req.kind = "video"
    /\ req.call.phase = "sleep"
    /\ Step(videoStep(St, req, VideoTimerFired(req.call)), room)

VideoPollReturn(req, resp, room, polls) ==
    /\ req.kind = "video"
    /\ req.call.phase = "poll"
    /\ MayAnswer(req.call, resp, polls)
    /\ Step(videoStep(St, req, VideoPolled(req.call, resp)), room)

VideoFetchReturn(req, resp, room) ==
    /\ req.kind = "video"
    /\ req.call.phase = "fetch"
    /\ Step(videoStep(St, req, VideoFetched(req.call, resp)), room)

\* Every step of the application: the page opens on one of `sharedInputs`
\* and the user types one of `typedTopics`.
NextOn(sharedInputs, typedTopics, room, polls) ==
    \/ \E shared \in sharedInputs : Mount(shared, room)
    \/ \E typed \in typedTopics, simulationType \in SimulationTypes :
          TopicSubmit(typed, simulationType, room)
    \/ \E req \in BagToSet(planInflight) : \E resp \in PlanResponses(req) :
          PlanSettled(req, resp, room)
    \/ \E index \in -1..MaxPlanLen : GoToStep(index, room)
    \/ \E typed \in EditPrompts : ImageEdit(typed, room)
    \/ \E newStyle \in SelectedStyles : VideoRegenerate(newStyle, room)
    \/ \E req \in BagToSet(inflight) : \E resp \in ResponsesTo(req) :
          ImageSettled(req, resp, room)
    \/ \E req \in BagToSet(inflight) : \E resp \in ResponsesTo(req) :
          EditSettled(req, resp, room)
    \/ \E req \in BagToSet(inflight) : \E resp \in OperationResponses :
          VideoSubmitReturn(req, resp, room, polls)
    \/ \E req \in BagToSet(inflight) : VideoTimer(req, room)
    \/ \E req \in BagToSet(inflight) : \E resp \in OperationResponses :
          VideoPollReturn(req, resp, room, polls)
    \/ \E req \in BagToSet(inflight) : \E resp \in FetchResponses :
          VideoFetchReturn(req, resp, room)

NextWith(room, polls) == NextOn(SharedInputs, TypedTopics, room, polls)

\* The application with one visual call pending at a time and short video jobs.
Next == NextWith(MaxInflight, MaxPolls)

Spec == Init /\ [][Next]_vars

\* The application with overlapping visual calls.
NextOverlap == NextWith(MaxInflight + 1, MaxPolls)

SpecOverlap == Init /\ [][NextOverlap]_vars

\* The application with one visual call at a time and long video jobs.
NextPolling == NextWith(1, MaxPollsLong)

SpecPolling == Init /\ [][NextPolling]_vars

\* One step of some pending generateVideo call: its timer fires or the call
\* it awaits returns.
VideoAdvance(room, polls) ==
    \/ \E req \in BagToSet(inflight) : \E resp \in OperationResponses :
          VideoSubmitReturn(req, resp, room, polls)
    \/ \E req \in BagToSet(inflight) : VideoTimer(req, room)
    \/ \E req \in BagToSet(inflight) : \E resp \in OperationResponses :
          VideoPollReturn(req, resp, room, polls)
    \/ \E req \in BagToSet(inflight) : \E resp \in FetchResponses :
          VideoFetchReturn(req, resp, room)

\* The application with long video jobs, where timers fire, awaited calls
\* return, and the job is reported done (or a call fails) after at most
\* MaxPollsLong not-done reports.
SpecLive == Init /\ [][NextPolling]_vars /\ WF_vars(VideoAdvance(1, MaxPollsLong))

\* The application opened on shared links, with the topics of ShareTypedTopics.
NextShare == NextOn(SharedFromLinks, ShareTypedTopics, MaxInflight, MaxPolls)

SpecShare == Init /\ [][NextShare]_vars

----------------------------------------------------------------------------
(* Properties *)

\* The prompt of the step a visual was generated (or edited) for.
ProducedFor(vc) ==
    IF vc.type = "image" THEN Base64Of(vc.data).of ELSE vc.data.blobOf

\* A visual call was started in this step; the calls it started.
EnteredPending == BagCardinality(inflight') > BagCardinality(inflight)

StartedCalls ==
    IF EnteredPending THEN { r \in BagToSet(inflight') : r.latest } ELSE {}

\* The generateVideo calls in progress.
VideoCalls == { r.call : r \in { q \in BagToSet(inflight) : q.kind = "video" } }

\* The n-th entry of the message list read cyclically, n counted from 1.
Cyclic(n) == videoGenerationMessages[((n - 1) % Len(videoGenerationMessages)) + 1]

\* C1: whenever a visual is shown, it was produced for the step at the
\* current index of the current plan.
C1_VisualIsForCurrentStep ==
    visualContent.type # "null" =>
        /\ HasCurrentStep(St)
        /\ ProducedFor(visualContent) = CurrentStep(St).prompt

\* C2: at most one visual call is pending at any time.
C2_AtMostOneVisualInFlight == BagCardinality(inflight) <= 1

\* C3 as claimed: every step that starts a visual call leaves the visual and
\* the error null.
C3_PendingClearsVisualAndError ==
    [][EnteredPending => visualContent' = NullVisual /\ error' = NullError]_vars

\* C3 amended: every step that starts a visual call sets the pending flag and
\* leaves the error null; it leaves the visual null when the call is a
\* generation, and leaves the current image in place when the call is an edit.
C3_PendingClearsErrorAndGeneratedVisual ==
    [][EnteredPending =>
         /\ error' = NullError
         /\ loading'.visual
         /\ \A r \in StartedCalls :
               IF r.kind = "edit"
               THEN visualContent' = visualContent /\ visualContent.type = "image"
               ELSE visualContent' = NullVisual]_vars

C3_Witness ==
    \E r \in BagToSet(inflight) :
        r.kind = "edit" /\ visualContent = r.base /\ loading.visual /\ error = NullError

\* C4: no edit call is started while the visual is null or not an image, or
\* while a visual call is pending.
C4_EditIsNoOpWhenInvalid ==
    [][(visualContent.type # "image" \/ BagCardinality(inflight) > 0)
         => \A r \in StartedCalls : r.kind # "edit"]_vars

\* C5: goTo(i) with i inside the plan makes i the current index, so that the
\* current step is the plan's i-th; with i outside it leaves the index alone.
C5_GoToSelectsOrIgnores ==
    \A index \in -1..(MaxPlanLen + 1) :
        LET after == GoToStepResult(St, index) IN
        IF 0 <= index /\ index < Len(simulationPlan)
        THEN /\ after.currentStepIndex = index
             /\ CurrentStep(after) = simulationPlan[index + 1]
        ELSE after.currentStepIndex = currentStepIndex

C5_Witness ==
    /\ currentStepIndex = 1
    /\ \E r \in BagToSet(inflight) : r.index = 1 /\ r.step = simulationPlan[2]

\* C6: the plan is empty or the current index is one of its positions.
C6_IndexWithinPlan ==
    Len(simulationPlan) = 0
    \/ (0 <= currentStepIndex /\ currentStepIndex <= Len(simulationPlan) - 1)

C6_Witness ==
    /\ Len(simulationPlan) = MaxPlanLen
    /\ currentStepIndex = Len(simulationPlan) - 1
    /\ planInflight = EmptyBag

\* C7: an accepted topic submission leaves index 0, no visual and no error;
\* a plan call that returns a non-empty array makes it the plan and starts
\* one visual call, for its first step, with the visual and the error null.
C7_SubmitResetsAndPlanStartsClean ==
    /\ \A typed \in TypedTopics, simulationType \in SimulationTypes :
          SubmitAccepted(St, typed) =>
             LET after == TopicSubmitResult(St, typed, simulationType) IN
             /\ after.currentStepIndex = 0
             /\ after.visualContent = NullVisual
             /\ after.error = NullError
    /\ \A req \in BagToSet(planInflight) : \A resp \in PlanResponses(req) :
          (resp.kind = "text" /\ resp.parses /\ Len(resp.value) > 0) =>
             LET after == PlanSettledResult(St, req, resp) IN
             /\ after.simulationPlan = resp.value
             /\ after.currentStepIndex = 0
             /\ after.visualContent = NullVisual
             /\ after.error = NullError
             /\ BagCardinality(after.inflight) = BagCardinality(inflight) + 1
             /\ \E r \in BagToSet(after.inflight) :
                   /\ r.latest
                   /\ r.kind # "edit"
                   /\ r.step = resp.value[1]

C7_Witness ==
    /\ topic = <<"m">>
    /\ Len(simulationPlan) > 0
    /\ planInflight = EmptyBag
    /\ currentStepIndex = 0
    /\ visualContent = NullVisual
    /\ error = NullError
    /\ loading.visual
    /\ \E r \in BagToSet(inflight) : r.step = simulationPlan[1] /\ r.kind # "edit"

C9_MessagesFollowListOnly ==
    \A c \in VideoCalls :
        \A n \in 1..Len(c.delivered) : c.delivered[n] = Cyclic(n)

\* C9 amended: after t poll ticks the call has delivered t+1 list messages,
\* the n-th being the list's entry n read cyclically (the first at the start
\* of the call, then one per tick); once the job is reported complete with a
\* download link, the only further message is "Fetching generated video...".
C9_MessagesFollowListThenFetching ==
    \A c \in VideoCalls :
        LET k == c.ticks + 1 IN
        /\ \A n \in 1..k : c.delivered[n] = Cyclic(n)
        /\ IF c.phase = "fetch"
           THEN Len(c.delivered) = k + 1 /\ c.delivered[k + 1] = FetchingMessage
           ELSE Len(c.delivered) = k

C9_Witness ==
    \E c \in VideoCalls :
        /\ c.phase = "fetch"
        /\ c.ticks = Len(videoGenerationMessages)
        /\ c.delivered[c.ticks + 1] = videoGenerationMessages[1]

\* C10 as claimed: a job that reported not-done k times has delivered k
\* messages when its download starts.
C10_DeliversOnePerNotDone ==
    \A c \in VideoCalls : c.phase = "fetch" => Len(c.delivered) = c.ticks

\* C10 amended: a job that reported not-done k times has delivered k+2
\* messages when its download starts (the initial one, one per not-done
\* report, and the fetching message), and none is added before the video
\* payload is set.
C10_DeliversInitialTicksAndFetching ==
    \A c \in VideoCalls : c.phase = "fetch" =>
        /\ Len(c.delivered) = c.ticks + 2
        /\ \A resp \in FetchResponses : VideoFetched(c, resp).delivered = c.delivered

C10_Witness ==
    \E c \in VideoCalls :
        c.phase = "fetch" /\ c.ticks = 3 /\ Len(c.delivered) = 5

\* The completed-without-link report of the video service, and a download
\* response that is not ok.
NoLinkOperation == [kind |-> "op", done |-> TRUE, uri |-> FALSE]

NotOkResponse == [kind |-> "http", ok |-> FALSE]

\* C11: a generateVideo call whose job completes without a video reference
\* throws the no-download-link error without ever starting the download, and
\* one whose download response is not ok throws the download error; either
\* way the call ends, the error message is set and the visual is null.
C11_VideoFailuresSetErrorAndNoVisual ==
    \A r \in BagToSet(inflight) : r.kind = "video" =>
        /\ r.call.phase \in {"submit", "poll"} =>
              LET ended == IF r.call.phase = "submit"
                           THEN VideoSubmitted(r.call, NoLinkOperation)
                           ELSE VideoPolled(r.call, NoLinkOperation)
                  after == videoStep(St, r, ended)
              IN /\ ended.phase = "throw"
                 /\ ended.message = NoDownloadLink
                 /\ ended.delivered = r.call.delivered
                 /\ CopiesIn(r, after.inflight) < CopiesIn(r, inflight)
                 /\ after.error = NoDownloadLink
                 /\ after.visualContent = NullVisual
        /\ r.call.phase = "fetch" =>
              LET ended == VideoFetched(r.call, NotOkResponse)
                  after == videoStep(St, r, ended)
              IN /\ ended.phase = "throw"
                 /\ ended.message = DownloadFailed
                 /\ CopiesIn(r, after.inflight) < CopiesIn(r, inflight)
                 /\ after.error = DownloadFailed
                 /\ after.visualContent = NullVisual

\* C12: for every response of the image endpoint to a pending image or edit
\* call, generateImage / editImage return the data and MIME type of the
\* first part that has an inline payload, and throw their no-image-data
\* error exactly when no part has one (an empty part list included).
C12_FirstInlineOrNoImageData ==
    \A r \in BagToSet(inflight) : r.kind \in {"image", "edit"} =>
        \A resp \in ResponsesTo(r) : resp.kind = "parts" =>
            LET inline == { k \in 1..Len(resp.parts) : resp.parts[k].hasInline }
                out == IF r.kind = "edit" THEN editImage(resp) ELSE generateImage(resp)
            IN IF inline = {}
               THEN /\ ~out.ok
                    /\ out.message = (IF r.kind = "edit" THEN NoEditData ELSE NoImageData)
               ELSE LET first == CHOOSE k \in inline : \A j \in inline : k <= j IN
                    /\ out.ok
                    /\ out.base64 = resp.parts[first].data
                    /\ out.mimeType = resp.parts[first].mimeType

\* An edit call is pending on an image that generateImage returned.
C12_Witness ==
    /\ visualContent.type = "image"
    /\ visualContent.mimeType = "image/png"
    /\ \E r \in BagToSet(inflight) :
          /\ r.kind = "edit"
          /\ \E resp \in ResponsesTo(r) :
                /\ resp.kind = "parts"
                /\ Len(resp.parts) = 2
                /\ \A k \in 1..2 : resp.parts[k].hasInline

\* The ways a pending generateVideo call can end by throwing: the state of
\* the call after each answer that makes it throw.
VideoFailures(call) ==
    { c \in ( IF call.phase = "submit"
              THEN { VideoSubmitted(call, resp) : resp \in {Rejected, NoLinkOperation} }
              ELSE IF call.phase = "poll"
              THEN { VideoPolled(call, resp) : resp \in {Rejected, NoLinkOperation} }
              ELSE IF call.phase = "fetch"
              THEN { VideoFetched(call, resp) : resp \in {Rejected, NotOkResponse} }
              ELSE {} ) : c.phase = "throw" }

C14_EditSuccessReplacesImageOnly ==
    \A r \in BagToSet(inflight) : r.kind = "edit" =>
        \A resp \in ResponsesTo(r) : editImage(resp).ok =>
            LET after == editSettled(St, r, resp)
                first == CHOOSE k \in 1..Len(resp.parts) :
                            /\ resp.parts[k].hasInline
                            /\ \A j \in 1..(k - 1) : ~resp.parts[j].hasInline
                image == resp.parts[first]
            IN /\ after.visualContent.type = "image"
               /\ after.visualContent.mimeType = image.mimeType
               /\ after.visualContent.data = ImageDataUrl(image.mimeType, image.data)
               /\ Base64Of(after.visualContent.data).edit = r.editPrompt
               /\ Base64Of(after.visualContent.data).of = Base64Of(r.base.data).of
               /\ after.currentStepIndex = currentStepIndex
               /\ after.simulationPlan = simulationPlan
               /\ after.topic = topic

\* An edited image is shown and nothing is pending.
C14_Witness ==
    /\ visualContent.type = "image"
    /\ Base64Of(visualContent.data).edit # <<>>
    /\ error = NullError
    /\ inflight = EmptyBag

\* C15: a Regenerate click that the viewer lets through, on a video step,
\* does what a step-triggered generation of that step does, with the chosen
\* style: visual and error become null, the previous progress message gives
\* way to the new call's first one, visual loading is set and one video call
\* for the current step and the chosen style is started; and any way such a
\* call ends leaves either a video visual for its step and style or an error
\* message.  Neither step changes the current index or the plan.
C15_RegenerateFollowsGeneration ==
    /\ \A newStyle \in SelectedStyles : RegenerateAccepted(St) =>
          LET after == VideoRegenerateResult(St, newStyle)
              stepTriggered == generateVisualForCurrentStep(St, NoStyle)
          IN /\ after.visualContent = NullVisual
             /\ after.error = NullError
             /\ after.videoStatus = videoGenerationMessages[1]
             /\ after.loading.visual
             /\ after.currentStepIndex = currentStepIndex
             /\ after.simulationPlan = simulationPlan
             /\ BagCardinality(after.inflight) = BagCardinality(inflight) + 1
             /\ \E r \in BagToSet(after.inflight) :
                   /\ r.latest
                   /\ r.kind = "video"
                   /\ r.step = CurrentStep(St)
                   /\ r.style = newStyle
                   /\ r.call = VideoStart
                   /\ after.inflight = PutLatest(inflight, r)
                   /\ stepTriggered.inflight = PutLatest(inflight, [r EXCEPT !.style = "animation"])
             /\ [after EXCEPT !.inflight = EmptyBag] = [stepTriggered EXCEPT !.inflight = EmptyBag]
    /\ \A r \in BagToSet(inflight) : (r.kind = "video" /\ r.style \in SelectedStyles) =>
          \A resp \in OperationResponses \cup FetchResponses :
             LET ended == IF r.call.phase = "submit" /\ resp \in OperationResponses
                          THEN VideoSubmitted(r.call, resp)
                          ELSE IF r.call.phase = "poll" /\ resp \in OperationResponses
                          THEN VideoPolled(r.call, resp)
                          ELSE IF r.call.phase = "fetch" /\ resp \in FetchResponses
                          THEN VideoFetched(r.call, resp)
                          ELSE r.call
                 after == videoStep(St, r, ended)
             IN ended.phase \in {"return", "throw"} =>
                   /\ \/ /\ ended.phase = "return"
                         /\ after.visualContent.type = "video"
                         /\ after.visualContent.data.blobOf = r.step.prompt
                         /\ after.visualContent.data.style = r.style
                      \/ /\ ended.phase = "throw"
                         /\ after.error = ended.message
                         /\ after.error # NullError
                   /\ ~after.loading.visual
                   /\ after.currentStepIndex = currentStepIndex
                   /\ after.simulationPlan = simulationPlan

\* A regenerated video call, with the chosen style, is pending.
C15_Witness ==
    /\ loading.visual
    /\ visualContent = NullVisual
    /\ \E r \in BagToSet(inflight) :
          r.kind = "video" /\ r.style \in SelectedStyles /\ r.call.phase = "fetch"

\* C16: in every state in which the Share button is shown, opening the link
\* that handleShare builds from the topic and the plan (query parameter
\* read, atob, decodeURIComponent, JSON.parse) gives back that topic and a
\* plan equal to it step by step, field by field.
C16_ShareLinkRoundTrip ==
    ViewerShown(St) =>
        SharedFromURL(handleShare(St))
            = [kind |-> "data", topic |-> topic, simulationPlan |-> simulationPlan]

\* The pending visual calls that end in this step.
SettledCalls ==
    IF BagCardinality(inflight') < BagCardinality(inflight)
    THEN { r \in BagToSet(inflight) : CopiesIn(r, inflight') < CopiesIn(r, inflight) }
    ELSE {}

\* What is shown after the step is exactly an outcome of call r: its visual
\* and no error, or an error and (unless r is an edit) no visual.
ShowsOutcomeOf(r) ==
    \/ /\ error' = NullError
       /\ visualContent'.type = (IF r.kind = "video" THEN "video" ELSE "image")
       /\ CASE r.kind = "image" -> Base64Of(visualContent'.data).of = r.step.prompt
            [] r.kind = "edit" ->
                  /\ Base64Of(visualContent'.data).of = Base64Of(r.base.data).of
                  /\ Base64Of(visualContent'.data).edit = r.editPrompt
            [] r.kind = "video" ->
                  /\ visualContent'.data.blobOf = r.step.prompt
                  /\ visualContent'.data.style = r.style
    \/ /\ error' # NullError
       /\ r.kind = "edit" \/ visualContent' = NullVisual

\* C17: while a plan is shown, what is shown once the visual calls have
\* settled is the outcome of the most recently started one, whatever the
\* order of completion: when the most recently started call settles, exactly
\* its outcome is shown, and a call that settles after the most recently
\* started one has settled changes neither the visual nor the error.
C17_NewestRequestWins ==
    [][\A r \in SettledCalls : Len(simulationPlan) > 0 =>
          IF r.latest
          THEN ShowsOutcomeOf(r)
          ELSE (\A q \in BagToSet(inflight) : ~q.latest)
                  => visualContent' = visualContent /\ error' = error]_vars

\* C18: in every state in which a visual call is pending the visual loading
\* flag is true (no step sets it to false while a call is outstanding).
C18_PendingFlagCoversInflight ==
    BagCardinality(inflight) > 0 => loading.visual

\* C19: the progress message is non-empty only while a generateVideo call is
\* pending, and is then a message that such a call delivered: in every state
\* without a pending video call it is the empty string.
C19_ProgressOnlyWhileVideoPending ==
    /\ VideoCalls = {} => videoStatus = ""
    /\ videoStatus # "" =>
          \E c \in VideoCalls : \E n \in 1..Len(c.delivered) : c.delivered[n] = videoStatus

\* A video has been generated and shown; its progress messages are gone.
C19_Witness ==
    /\ visualContent.type = "video"
    /\ videoStatus = ""
    /\ inflight = EmptyBag

\* C20: within one generateVideo call the poll ticks are sequential.  With t
\* ticks entered and q status requests issued: while tick t waits for its
\* timer its message (the t+1st delivered) is out and its request is not yet
\* issued (q = t - 1); while its request is awaited q = t; a new tick is
\* entered only from the return of the previous request, so never more
\* than one request is outstanding (q <= t, and q = t whenever no timer is
\* awaited).
C20_PollingIsSequential ==
    \A c \in VideoCalls :
        /\ c.requests <= c.ticks
        /\ c.phase = "submit" => c.ticks = 0 /\ c.requests = 0
        /\ c.phase = "sleep" =>
              /\ c.ticks >= 1
              /\ c.requests = c.ticks - 1
              /\ Len(c.delivered) = c.ticks + 1
              /\ VideoTimerFired(c).phase = "poll"
              /\ VideoTimerFired(c).requests = c.ticks
              /\ VideoTimerFired(c).delivered = c.delivered
        /\ c.phase = "poll" =>
              /\ c.requests = c.ticks
              /\ Len(c.delivered) = c.ticks + 1
              /\ \A resp \in Operations :
                    LET next == VideoPolled(c, resp) IN
                    /\ next.requests = c.requests
                    /\ next.ticks = IF resp.done THEN c.ticks ELSE c.ticks + 1
                    /\ ~resp.done => next.phase = "sleep"
        /\ c.phase = "fetch" => c.requests = c.ticks

\* The third status request of a call is awaited, three messages after the
\* initial one delivered.
C20_Witness ==
    \E c \in VideoCalls :
        c.phase = "poll" /\ c.ticks = 3 /\ c.requests = 3 /\ Len(c.delivered) = 4

\* A status report of a job that is not done yet.
NotDoneOperation == [kind |-> "op", done |-> FALSE, uri |-> FALSE]

\* C21: the polling loop has no timeout: a not-done report, after however
\* many ticks, always starts another tick, and a call waiting for its timer
\* only goes on to its status request; and when timers fire, awaited calls
\* return and the job is eventually reported done or a call fails, every
\* pending generateVideo call settles and visual loading ends.
C21_PollsUntilDoneThenSettles ==
    /\ [](\A c \in VideoCalls :
            /\ c.phase \in {"submit", "poll"} =>
                  LET next == IF c.phase = "submit"
                              THEN VideoSubmitted(c, NotDoneOperation)
                              ELSE VideoPolled(c, NotDoneOperation)
                  IN next.phase = "sleep" /\ next.ticks = c.ticks + 1
            /\ c.phase = "sleep" => VideoTimerFired(c).phase = "poll")
    /\ (VideoCalls # {}) ~> (inflight = EmptyBag /\ ~loading.visual)

\* A call has been told "not done" six times and is still polling.
C21_Witness ==
    \E c \in VideoCalls : c.phase = "sleep" /\ c.ticks = 6 /\ c.requests = 5

\* `after` differs from the current state by exactly one newly started
\* generation call, for the step at the index of `after`, with nothing shown.
StartsOneGeneration(after) ==
    /\ HasCurrentStep(after)
    /\ BagCardinality(after.inflight) = BagCardinality(inflight) + 1
    /\ after.visualContent = NullVisual
    /\ after.loading.visual
    /\ \E r \in BagToSet(after.inflight) :
          /\ r.latest
          /\ r.kind = CurrentStep(after).type
          /\ r.step = CurrentStep(after)
          /\ r.index = after.currentStepIndex
          /\ after.inflight = PutLatest(inflight, r)

\* C22: selecting a different valid step, receiving a non-empty plan and
\* opening a link that carries one each start exactly one generation call,
\* for the step at the current index, whatever was generated before: no
\* earlier visual is reused.
C22_StepChangeAndPlanLoadGenerateAnew ==
    /\ \A index \in 0..MaxPlanLen :
          (index < Len(simulationPlan) /\ index # currentStepIndex) =>
             LET after == GoToStepResult(St, index) IN
             after.currentStepIndex = index /\ StartsOneGeneration(after)
    /\ \A req \in BagToSet(planInflight) : \A resp \in PlanResponses(req) :
          (resp.kind = "text" /\ resp.parses /\ Len(resp.value) > 0) =>
             LET after == PlanSettledResult(St, req, resp) IN
             /\ after.simulationPlan = resp.value
             /\ after.currentStepIndex = 0
             /\ StartsOneGeneration(after)
    /\ ~mounted =>
          \A shared \in SharedInputs :
             LET after == MountResult(St, shared) IN
             IF Len(after.simulationPlan) > 0
             THEN after.currentStepIndex = 0 /\ StartsOneGeneration(after)
             ELSE after.inflight = inflight

\* The second step was selected and its generation is the one pending call.
C22_Witness ==
    /\ currentStepIndex = 1
    /\ visualContent = NullVisual
    /\ loading.visual
    /\ BagCardinality(inflight) = 1
    /\ \E r \in BagToSet(inflight) : r.latest /\ r.index = 1 /\ r.kind = simulationPlan[2].type

\* Every state a pending visual call can lead to in one step: its response
\* arrives, its timer fires.
VisualOutcomes(r) ==
    CASE r.kind = "image" -> { imageSettled(St, r, resp) : resp \in ResponsesTo(r) }
      [] r.kind = "edit" -> { editSettled(St, r, resp) : resp \in ResponsesTo(r) }
      [] r.kind = "video" ->
            { videoStep(St, r, next) :
                next \in CASE r.call.phase = "submit" ->
                                 { VideoSubmitted(r.call, resp) : resp \in OperationResponses }
                           [] r.call.phase = "sleep" -> { VideoTimerFired(r.call) }
                           [] r.call.phase = "poll" ->
                                 { VideoPolled(r.call, resp) : resp \in OperationResponses }
                           [] r.call.phase = "fetch" ->
                                 { VideoFetched(r.call, resp) : resp \in FetchResponses } }

\* C23: at most one plan call is pending, and plan loading is true exactly
\* while one is; a topic submission changes nothing while plan loading is
\* true or when the trimmed topic is empty; and no step of the visual calls
\* (step selection, edit, regenerate, progress, settling) changes plan
\* loading or the pending plan call.
C23_OnePlanCallAndExactFlag ==
    LET keepsPlan(after) ==
            after.loading.plan = loading.plan /\ after.planInflight = planInflight
    IN /\ BagCardinality(planInflight) <= 1
       /\ loading.plan <=> planInflight # EmptyBag
       /\ \A typed \in TypedTopics, simulationType \in SimulationTypes :
             (loading.plan \/ Trim(typed) = <<>>) =>
                TopicSubmitResult(St, typed, simulationType) = St
       /\ \A index \in -1..MaxPlanLen : keepsPlan(GoToStepResult(St, index))
       /\ \A typed \in EditPrompts : keepsPlan(ImageEditResult(St, typed))
       /\ \A newStyle \in SelectedStyles : keepsPlan(VideoRegenerateResult(St, newStyle))
       /\ \A r \in BagToSet(inflight) : \A after \in VisualOutcomes(r) : keepsPlan(after)

\* A new topic's plan call is pending while the previous plan's visual call
\* has not settled yet.
C23_Witness ==
    /\ loading.plan
    /\ BagCardinality(planInflight) = 1
    /\ inflight # EmptyBag

\* C24: when a pending edit call fails, the state changes only in the error
\* message (set to the failure's message), in visual loading (false) and in
\* the call no longer being pending: visual, index, plan and topic stay; and
\* if the image the call was editing is still shown in the viewer, a further
\* non-blank edit prompt is accepted and starts an edit of that image.
C24_FailedEditKeepsImage ==
    \A r \in BagToSet(inflight) : r.kind = "edit" =>
        \A resp \in ResponsesTo(r) : ~editImage(resp).ok =>
            LET after == editSettled(St, r, resp) IN
            /\ after = [St EXCEPT !.error = editImage(resp).message,
                                  !.loading.visual = FALSE,
                                  !.inflight = Take(@, r)]
            /\ after.visualContent = visualContent
            /\ (visualContent = r.base /\ ViewerShown(St)) =>
                  \A typed \in EditPrompts : Trim(typed) # <<>> =>
                     /\ EditAccepted(after, typed)
                     /\ \E q \in BagToSet(ImageEditResult(after, typed).inflight) :
                           q.latest /\ q.kind = "edit" /\ q.base = r.base
                                    /\ q.editPrompt = Trim(typed)

\* An edit call was rejected: the unedited image is still shown, with the
\* error, and nothing is pending.
C24_Witness ==
    /\ error = RejectedMessage
    /\ visualContent.type = "image"
    /\ Base64Of(visualContent.data).edit = <<>>
    /\ ~loading.visual
    /\ inflight = EmptyBag
    /\ Len(simulationPlan) > 0

\* C25: in every state in which no plan call and no visual call is pending,
\* plan loading and visual loading are false and the progress message is
\* empty, whatever steps led there.
C25_QuiescentStateIsIdle ==
    (planInflight = EmptyBag /\ inflight = EmptyBag) =>
        /\ ~loading.plan
        /\ ~loading.visual
        /\ videoStatus = ""

\* Everything has settled after a plan was loaded and its generation failed.
C25_Witness ==
    /\ planInflight = EmptyBag
    /\ inflight = EmptyBag
    /\ Len(simulationPlan) > 0
    /\ visualContent = NullVisual
    /\ error # NullError
    /\ loading = [plan |-> FALSE, visual |-> FALSE]

====
